---- MODULE Spec2Model ----
(***************************************************************************)
(* Testimonials carousel of src/js/performance.js (testimonialCarousel).   *)
(*                                                                         *)
(* The module state of the IIFE (state, elements), the DOM attributes the  *)
(* carousel writes, the browser's timer table and the page environment     *)
(* (pointer, focus, visibility) are the variables.  Every event handler    *)
(* the carousel registers is one action; a handler runs to completion      *)
(* (single UI event loop), so an action is the whole handler.              *)
(*                                                                         *)
(* The browser classes of src/unnamed/part_001 (BrowserDetection,          *)
(* GracefulDegradation.addBrowserClasses) and the LazyLoader of            *)
(* src/js/performance.js are separate scripts that share nothing with the  *)
(* carousel; each has its own variable and its own specification.          *)
(*                                                                         *)
(* Time: delays are in milliseconds.  The clock advances in steps of       *)
(* Quantum ms (AdvanceTime); a timer is due once its remaining delay has   *)
(* reached 0 and the clock does not advance past a due timer, but any      *)
(* other event may be handled before a due callback runs.  Timestamps      *)
(* (Date.now()) are kept as the time elapsed since they were taken.        *)
(***************************************************************************)
EXTENDS Integers, Sequences, FiniteSets

(* ------------------------------ CONFIG -------------------------------- *)
AUTO_PLAY_INTERVAL == 5000
TRANSITION_DURATION == 300
SWIPE_THRESHOLD == 50
TOUCH_ANGLE_THRESHOLD == 30
KEYBOARD_REPEAT_DELAY == 300
RESIZE_DEBOUNCE == 150
SWIPE_MAX_DURATION == 500

(* ------------------------------ bounds -------------------------------- *)
MaxCards == 3
MaxOvershoot == 2
MaxTimers == 2
MaxPending == 2
Quantum == 2500
MaxVersion == 91
MaxImages == 2
MaxBatch == 2

(* ----------------------------- vocabulary ----------------------------- *)

Min(a, b) == IF a < b THEN a ELSE b
Max(a, b) == IF a > b THEN a ELSE b
Abs(a) == IF a < 0 THEN 0 - a ELSE a

Handles == 1..MaxTimers

VARIABLES
  state,        \* the carousel's state object
  cards,        \* per card: active class, aria-hidden, tabindex
  indicators,   \* per indicator: active class, aria-selected
  liveRegion,   \* text of the live region
  controls,     \* elements.prevButton / nextButton and where they are
  styles,       \* number of <style id="testimonials-carousel-styles">
  intervals,    \* live setInterval timers: handle -> remaining ms
  timeouts,     \* pending updateCarousel clear-callbacks
  resizeTimer,  \* the resize debounce timeout (closure variable)
  env,          \* pointer / focus / visibility of the page, and whether
                \* a single-touch gesture is under way on the grid
  dom,          \* the static DOM the script finds
  phase,        \* "loading" | "ready" | "static"
  logged,       \* console.error calls made by init's catch
  compat,       \* what BrowserDetection.detect() reported and the classes
                \* addBrowserClasses put on the html element
  lazy,         \* LazyLoader: observed images, loadImage calls per image,
                \* and the entries of the observer callback that ran last
  last          \* what the handler that ran last did: op is its navigateTo
                \* trigger, "pause", "resume", "sync", "debounced" (a key
                \* inside the repeat delay), "touchend" (a touch-end that
                \* called no navigateTo) or "none"; path is the
                \* return its navigateTo call took; from and arg are the
                \* currentIndex before, and the argument of, a direct call

vars == <<state, cards, indicators, liveRegion, controls, styles, intervals,
          timeouts, resizeTimer, env, dom, phase, logged, compat, lazy,
          last>>

(* The part of the program a handler's callees read and write. *)
World == [state |-> state, cards |-> cards, indicators |-> indicators,
          liveRegion |-> liveRegion, intervals |-> intervals,
          timeouts |-> timeouts]

Commit(w) ==
  /\ state' = w.state
  /\ cards' = w.cards
  /\ indicators' = w.indicators
  /\ liveRegion' = w.liveRegion
  /\ intervals' = w.intervals
  /\ timeouts' = w.timeouts

(* --------------------------- browser timers --------------------------- *)
FreeHandles(w) == Handles \ DOMAIN w.intervals

LowestFree(w) == CHOOSE h \in FreeHandles(w) : \A g \in FreeHandles(w) : h <= g

(* A timestamp field holds the time elapsed since Date.now() returned its  *)
(* value, saturated at the delay it is compared with.  The literal 0 of a  *)
(* field that holds no Date.now() value is older than every delay.         *)
DateNow == 0

ZeroStamp(delay) == delay

(* now - stamp < delay *)
Within(stamp, delay) == stamp < delay

Older(stamp, delay) == Min(stamp + Quantum, delay)

Later(remaining) == Max(remaining - Quantum, 0)

(* setInterval(cb, delay): a fresh handle, due after delay ms. *)
setInterval(w, h, delay) ==
  [w EXCEPT !.intervals = [g \in DOMAIN @ \cup {h} |->
                             IF g = h THEN delay ELSE @[g]]]

(* clearInterval(handle): null and stale handles are ignored. *)
clearInterval(w, h) ==
  [w EXCEPT !.intervals = [g \in DOMAIN @ \ {h} |-> @[g]]]

(* Variant of the scheduling below that drops the callback. *)
setTimeoutClear_Never(w, delay, animate) == w

(* setTimeout(() => { state.isTransitioning = false }, delay): the timer   *)
(* queue is ordered by deadline, and by insertion among equal deadlines.   *)
setTimeoutClear(w, delay, animate) ==
  LET q == w.timeouts
      ahead == Cardinality({i \in DOMAIN q : q[i].delay <= delay})
      entry == [delay |-> delay, animate |-> animate]
  IN [w EXCEPT !.timeouts =
        [i \in 1..(Len(q) + 1) |->
           IF i <= ahead THEN q[i]
           ELSE IF i = ahead + 1 THEN entry
           ELSE q[i - 1]]]

(* ------------------------------ carousel ------------------------------ *)
ActiveCard == [active |-> TRUE, ariaHidden |-> FALSE, tabindex |-> "0"]
HiddenCard == [active |-> FALSE, ariaHidden |-> TRUE, tabindex |-> "-1"]
StaticCard == [active |-> FALSE, ariaHidden |-> FALSE, tabindex |-> "none"]

(* Variant announcing the zero-based index. *)
announceCurrentTestimonial_ZeroBased(w) ==
  [w EXCEPT !.liveRegion = [shown |-> w.state.currentIndex,
                            total |-> w.state.totalCards,
                            from |-> w.state.currentIndex]]

announceCurrentTestimonial(w) ==
  [w EXCEPT !.liveRegion = [shown |-> w.state.currentIndex + 1,
                            total |-> w.state.totalCards,
                            from |-> w.state.currentIndex]]

(* Variants of updateCarousel: one leaves the card shown before as it is,  *)
(* one schedules no clear-callback for an unanimated update.               *)
updateCarousel_KeepsOld(w, index, animate) ==
  LET w1 == [w EXCEPT !.state.isTransitioning = TRUE,
                      !.state.currentIndex = index,
                      !.cards[index] = ActiveCard]
      w2 == [w1 EXCEPT
               !.indicators = [i \in DOMAIN w.indicators |->
                                 [active |-> (i = index),
                                  selected |-> (i = index)]]]
      w3 == announceCurrentTestimonial(w2)
  IN setTimeoutClear(w3, IF animate THEN TRANSITION_DURATION ELSE 0, animate)

updateCarousel_NoSyncCallback(w, index, animate) ==
  LET w1 == [w EXCEPT !.state.isTransitioning = TRUE,
                      !.state.currentIndex = index]
      w2 == [w1 EXCEPT
               !.cards = [i \in DOMAIN w.cards |->
                            IF i = index THEN ActiveCard ELSE HiddenCard],
               !.indicators = [i \in DOMAIN w.indicators |->
                                 [active |-> (i = index),
                                  selected |-> (i = index)]]]
      w3 == announceCurrentTestimonial(w2)
  IN IF animate THEN setTimeoutClear(w3, TRANSITION_DURATION, animate) ELSE w3

updateCarousel(w, index, animate) ==
  LET w1 == [w EXCEPT !.state.isTransitioning = TRUE,
                      !.state.currentIndex = index]
      w2 == [w1 EXCEPT
               !.cards = [i \in DOMAIN w.cards |->
                            IF i = index THEN ActiveCard ELSE HiddenCard],
               !.indicators = [i \in DOMAIN w.indicators |->
                                 [active |-> (i = index),
                                  selected |-> (i = index)]]]
      w3 == announceCurrentTestimonial(w2)
  IN setTimeoutClear(w3, IF animate THEN TRANSITION_DURATION ELSE 0, animate)

(* Variant of startAutoPlay that sets the flag and creates no interval. *)
startAutoPlay_FlagOnly(w) ==
  IF w.state.isAutoPlaying THEN w
  ELSE [w EXCEPT !.state.isAutoPlaying = TRUE]

startAutoPlay(w) ==
  IF w.state.isAutoPlaying THEN w
  ELSE LET h == LowestFree(w)
       IN setInterval([w EXCEPT !.state.isAutoPlaying = TRUE,
                                !.state.autoPlayTimer = h],
                      h, AUTO_PLAY_INTERVAL)

(* Variant of pauseAutoPlay that forgets the handle without cancelling it. *)
pauseAutoPlay_OnlyFlags(w) ==
  IF ~w.state.isAutoPlaying THEN w
  ELSE [w EXCEPT !.state.autoPlayTimer = 0]

pauseAutoPlay(w) ==
  IF ~w.state.isAutoPlaying THEN w
  ELSE [clearInterval(w, w.state.autoPlayTimer)
          EXCEPT !.state.autoPlayTimer = 0]

(* Variant of resumeAutoPlay guarded like startAutoPlay. *)
resumeAutoPlay_ChecksFlag(w) ==
  IF w.state.isAutoPlaying THEN w
  ELSE LET h == LowestFree(w)
       IN setInterval([w EXCEPT !.state.autoPlayTimer = h],
                      h, AUTO_PLAY_INTERVAL)

resumeAutoPlay(w) ==
  IF w.state.autoPlayTimer # 0 THEN w
  ELSE LET h == LowestFree(w)
       IN setInterval([w EXCEPT !.state.autoPlayTimer = h],
                      h, AUTO_PLAY_INTERVAL)

(* Variant of resetAutoPlay that leaves the running interval alone. *)
resetAutoPlay_KeepsTimer(w) == resumeAutoPlay(w)

resetAutoPlay(w) == resumeAutoPlay(pauseAutoPlay(w))

(* Variants of the wrap: clamping, a boundary off by one, true modulo, no  *)
(* upper boundary.                                                         *)
WrapIndex_NoUpper(index, total) ==
  IF index < 0 THEN total - 1 ELSE index

WrapIndex_Clamp(index, total) ==
  IF index < 0 THEN 0
  ELSE IF index >= total THEN total - 1
  ELSE index

WrapIndex_OffByOne(index, total) ==
  IF index < 0 THEN total - 1
  ELSE IF index > total THEN 0
  ELSE index

WrapIndex_Modulo(index, total) == index % total

(* Lines 809-814: the boundary wrap of navigateTo. *)
WrapIndex(index, total) ==
  IF index < 0 THEN total - 1
  ELSE IF index >= total THEN 0
  ELSE index

(* Variants of navigateTo: without the isTransitioning guard, without the *)
(* wrap.                                                                   *)
navigateTo_Unguarded(w, index) ==
  LET newIndex == WrapIndex(index, w.state.totalCards)
  IN IF newIndex = w.state.currentIndex THEN w
     ELSE resetAutoPlay(updateCarousel(w, newIndex, TRUE))

navigateTo_NoWrap(w, index) ==
  IF w.state.isTransitioning THEN w
  ELSE IF index = w.state.currentIndex THEN w
       ELSE resetAutoPlay(updateCarousel(w, index, TRUE))

navigateTo(w, index) ==
  IF w.state.isTransitioning THEN w
  ELSE LET newIndex == WrapIndex(index, w.state.totalCards)
       IN IF newIndex = w.state.currentIndex THEN w
          ELSE resetAutoPlay(updateCarousel(w, newIndex, TRUE))

(* Which return of navigateTo a call takes. *)
NavPath(w, index) ==
  IF w.state.isTransitioning THEN "blocked"
  ELSE IF WrapIndex(index, w.state.totalCards) = w.state.currentIndex
       THEN "same"
       ELSE "moved"

(* ------------------------------- init --------------------------------- *)
DomConfigs ==
  {d \in [container : BOOLEAN, grid : BOOLEAN, wrapper : BOOLEAN,
          nCards : 0..MaxCards] :
     /\ d.grid => d.container
     /\ d.wrapper => d.container
     /\ d.nCards > 0 => d.grid}

Init ==
  /\ dom \in DomConfigs
  /\ state = [currentIndex |-> 0, totalCards |-> 0, isAutoPlaying |-> FALSE,
              autoPlayTimer |-> 0, lastKeyPressTime |-> ZeroStamp(KEYBOARD_REPEAT_DELAY),
              touchStartX |-> 0, touchStartY |-> 0,
              touchStartTime |-> ZeroStamp(SWIPE_MAX_DURATION),
              isTransitioning |-> FALSE]
  /\ cards = [i \in 0..(dom.nCards - 1) |-> StaticCard]
  /\ indicators = [i \in {} |-> [active |-> FALSE, selected |-> FALSE]]
  /\ liveRegion = [shown |-> 0, total |-> 0, from |-> 0]
  /\ controls = "none"
  /\ styles = 0
  /\ intervals = [h \in {} |-> 0]
  /\ timeouts = <<>>
  /\ resizeTimer = <<>>
  /\ env = [hover |-> FALSE, focus |-> FALSE, hidden |-> FALSE,
            gesture |-> FALSE]
  /\ phase = "loading"
  /\ logged = 0
  /\ compat = [detected |-> FALSE, browser |-> "unknown", version |-> 0,
               isModern |-> FALSE, classes |-> {}]
  /\ lazy = [started |-> FALSE, observed |-> {},
             loads |-> [img \in 1..MaxImages |-> 0], entries |-> <<>>]
  /\ last = [op |-> "none", from |-> 0, arg |-> 0, path |-> "none"]

Ran(op) == last' = [op |-> op, from |-> 0, arg |-> 0, path |-> "none"]

Called(op, index) ==
  last' = [op |-> op, from |-> 0, arg |-> 0, path |-> NavPath(World, index)]

(* Variant of injectCarouselStyles without the getElementById check. *)
injectCarouselStyles_Always(n) == n + 1

(* injectCarouselStyles: one style element per identifier. *)
injectCarouselStyles(n) == IF n > 0 THEN n ELSE n + 1

(* Variant of createIndicators whose loop stops one card early. *)
createIndicators_OneShort(total) ==
  [i \in 0..(total - 2) |-> [active |-> FALSE, selected |-> (i = 0)]]

(* createIndicators: one tab per card, the first one selected. *)
createIndicators(total) ==
  [i \in 0..(total - 1) |-> [active |-> FALSE, selected |-> (i = 0)]]

(* Line 526: a single testimonial needs no carousel. *)
TooFewCards_OnlyNone(total) == total <= 0

TooFewCards(total) == total <= 1

(* createCarouselControls: the buttons are created, then appended to the   *)
(* .testimonials__container wrapper, then the styles are injected; the     *)
(* append throws when the wrapper is missing.  A variant injects the       *)
(* styles first.                                                           *)
createCarouselControls_StylesFirst(d, n) ==
  IF ~d.wrapper
  THEN [controls |-> "detached", styles |-> injectCarouselStyles(n),
        threw |-> TRUE]
  ELSE [controls |-> "attached", styles |-> injectCarouselStyles(n),
        threw |-> FALSE]

createCarouselControls(d, n) ==
  IF ~d.wrapper
  THEN [controls |-> "detached", styles |-> n, threw |-> TRUE]
  ELSE [controls |-> "attached", styles |-> injectCarouselStyles(n),
        threw |-> FALSE]

(* init, lines 509-550, with the callees it runs before the listeners. *)
InitCarousel ==
  /\ phase = "loading"
  /\ Ran("none")
  /\ UNCHANGED <<dom, env, resizeTimer, compat, lazy>>
  /\ IF ~dom.container \/ ~dom.grid
     THEN /\ phase' = "static"
          /\ UNCHANGED <<state, cards, indicators, liveRegion, controls,
                         styles, intervals, timeouts, logged>>
     ELSE LET counted == [state EXCEPT !.totalCards = dom.nCards]
              made == createCarouselControls(dom, styles)
          IN IF TooFewCards(dom.nCards)
             THEN /\ phase' = "static"
                  /\ state' = counted
                  /\ UNCHANGED <<cards, indicators, liveRegion, controls,
                                 styles, intervals, timeouts, logged>>
             ELSE IF made.threw
             THEN \* caught by init: console.error
                  /\ phase' = "static"
                  /\ state' = counted
                  /\ controls' = made.controls
                  /\ styles' = made.styles
                  /\ logged' = logged + 1
                  /\ UNCHANGED <<cards, indicators, liveRegion,
                                 intervals, timeouts>>
             ELSE LET w0 == [World EXCEPT
                               !.state = counted,
                               !.indicators = createIndicators(dom.nCards)]
                  IN /\ phase' = "ready"
                     /\ controls' = made.controls
                     /\ styles' = made.styles
                     /\ Commit(startAutoPlay(updateCarousel(w0, 0, FALSE)))
                     /\ UNCHANGED logged

(* ------------------------------ handlers ------------------------------ *)
Ready == phase = "ready"

Rest == <<controls, styles, dom, phase, logged, compat, lazy>>

HasRoom == FreeHandles(World) # {} /\ Len(timeouts) < MaxPending

(* What each input handler leaves, as a function of the current state. *)
PrevClick == navigateTo(World, state.currentIndex - 1)

NextClick == navigateTo(World, state.currentIndex + 1)

(* parseInt(indicator.dataset.index, 10) is the indicator's position k. *)
IndicatorClick(k) == navigateTo(World, k)

Keys == {"ArrowLeft", "ArrowRight", "Home", "End", "Tab"}

NavKeys == {"ArrowLeft", "ArrowRight", "Home", "End"}

(* Variant of the key map with Home and End exchanged. *)
KeyTarget_HomeEndSwapped(key) ==
  CASE key = "ArrowLeft" -> state.currentIndex - 1
    [] key = "ArrowRight" -> state.currentIndex + 1
    [] key = "Home" -> state.totalCards - 1
    [] key = "End" -> 0

KeyTarget(key) ==
  CASE key = "ArrowLeft" -> state.currentIndex - 1
    [] key = "ArrowRight" -> state.currentIndex + 1
    [] key = "Home" -> 0
    [] key = "End" -> state.totalCards - 1

(* Variant of the key handler without the repeat check. *)
KeyDown_NoDebounce(key) ==
  IF key \in NavKeys
  THEN [navigateTo(World, KeyTarget(key))
          EXCEPT !.state.lastKeyPressTime = DateNow]
  ELSE World

KeyDown(key) ==
  IF Within(state.lastKeyPressTime, KEYBOARD_REPEAT_DELAY) THEN World
  ELSE IF key \in NavKeys
  THEN [navigateTo(World, KeyTarget(key))
          EXCEPT !.state.lastKeyPressTime = DateNow]
  ELSE World

handlePrevClick ==
  /\ Ready /\ HasRoom
  /\ Called("button", state.currentIndex - 1)
  /\ Commit(PrevClick)
  /\ UNCHANGED <<Rest, resizeTimer, env>>

handleNextClick ==
  /\ Ready /\ HasRoom
  /\ Called("button", state.currentIndex + 1)
  /\ Commit(NextClick)
  /\ UNCHANGED <<Rest, resizeTimer, env>>

handleIndicatorClick(k) ==
  /\ Ready /\ HasRoom
  /\ k \in DOMAIN indicators
  /\ Called("indicator", k)
  /\ Commit(IndicatorClick(k))
  /\ UNCHANGED <<Rest, resizeTimer, env>>

handleKeyDown(key) ==
  /\ Ready /\ HasRoom
  /\ env.focus
  /\ UNCHANGED <<Rest, resizeTimer, env>>
  /\ Commit(KeyDown(key))
  /\ IF Within(state.lastKeyPressTime, KEYBOARD_REPEAT_DELAY)
     THEN Ran("debounced")
     ELSE IF key \in NavKeys
     THEN Called("key", KeyTarget(key))
     ELSE Ran("none")

(* ------------------------------- touch -------------------------------- *)
(* Touch points <<clientX, clientY>>: starts on and off the left edge;     *)
(* ends 80 px left, 30 px left, 80 px right, and 80 px left but 60 px down. *)
TouchStarts == {<<0, 100>>, <<100, 100>>}
TouchEnds == {<<20, 100>>, <<70, 100>>, <<180, 100>>, <<20, 160>>}

(* What handleTouchStart leaves: a start with one touch is recorded. *)
TouchStart(n, x, y) ==
  IF n # 1 THEN World
  ELSE [World EXCEPT !.state.touchStartX = x,
                     !.state.touchStartY = y,
                     !.state.touchStartTime = DateNow]

handleTouchStart(n, x, y) ==
  /\ Ready
  /\ Ran("none")
  /\ env' = [env EXCEPT !.gesture = (n = 1)]
  /\ UNCHANGED <<Rest, resizeTimer>>
  /\ Commit(TouchStart(n, x, y))

(* handleTouchMove only decides on event.preventDefault(): no state or    *)
(* DOM attribute changes.                                                  *)
handleTouchMove(n, x, y) ==
  /\ Ready
  /\ UNCHANGED <<Rest, resizeTimer, env>>
  /\ Commit(World)
  /\ Ran("none")

(* |atan2(deltaY, deltaX)| in degrees is below the threshold, resp. above  *)
(* 180 minus the threshold.  For the threshold of 30 degrees the tangent   *)
(* squared is 1/3; atan2(0, 0) is 0.                                       *)
AngleBelowThreshold(deltaX, deltaY) ==
  /\ TOUCH_ANGLE_THRESHOLD = 30
  /\ \/ deltaX > 0 /\ 3 * deltaY * deltaY < deltaX * deltaX
     \/ deltaX = 0 /\ deltaY = 0

AngleAboveThreshold(deltaX, deltaY) ==
  /\ TOUCH_ANGLE_THRESHOLD = 30
  /\ deltaX < 0 /\ 3 * deltaY * deltaY < deltaX * deltaX

SwipeAccepted(deltaX, deltaY, stamp) ==
  /\ AngleBelowThreshold(deltaX, deltaY) \/ AngleAboveThreshold(deltaX, deltaY)
  /\ Abs(deltaX) > SWIPE_THRESHOLD
  /\ Within(stamp, SWIPE_MAX_DURATION)

(* What handleTouchEnd leaves. *)
TouchEnd(x, y) ==
  IF state.touchStartX = 0 THEN World
  ELSE LET deltaX == x - state.touchStartX
           deltaY == y - state.touchStartY
           index == IF deltaX > 0 THEN state.currentIndex - 1
                    ELSE state.currentIndex + 1
           moved == IF SwipeAccepted(deltaX, deltaY, state.touchStartTime)
                    THEN navigateTo(World, index) ELSE World
       IN [moved EXCEPT !.state.touchStartX = 0,
                        !.state.touchStartY = 0,
                        !.state.touchStartTime =
                           ZeroStamp(SWIPE_MAX_DURATION)]

handleTouchEnd(x, y) ==
  /\ Ready /\ HasRoom
  /\ env' = [env EXCEPT !.gesture = FALSE]
  /\ UNCHANGED <<Rest, resizeTimer>>
  /\ Commit(TouchEnd(x, y))
  /\ LET deltaX == x - state.touchStartX
         deltaY == y - state.touchStartY
     IN IF /\ state.touchStartX # 0
           /\ SwipeAccepted(deltaX, deltaY, state.touchStartTime)
        THEN Called("swipe", IF deltaX > 0 THEN state.currentIndex - 1
                                          ELSE state.currentIndex + 1)
        ELSE Ran("touchend")

(* --------------------------- pause / resume --------------------------- *)
MouseEnter ==
  /\ Ready /\ ~env.hover
  /\ env' = [env EXCEPT !.hover = TRUE]
  /\ Ran("pause")
  /\ Commit(pauseAutoPlay(World))
  /\ UNCHANGED <<Rest, resizeTimer>>

MouseLeave ==
  /\ Ready /\ HasRoom /\ env.hover
  /\ env' = [env EXCEPT !.hover = FALSE]
  /\ Ran("resume")
  /\ Commit(resumeAutoPlay(World))
  /\ UNCHANGED <<Rest, resizeTimer>>

FocusIn ==
  /\ Ready /\ ~env.focus
  /\ env' = [env EXCEPT !.focus = TRUE]
  /\ Ran("pause")
  /\ Commit(pauseAutoPlay(World))
  /\ UNCHANGED <<Rest, resizeTimer>>

FocusOut ==
  /\ Ready /\ HasRoom /\ env.focus
  /\ env' = [env EXCEPT !.focus = FALSE]
  /\ Ran("resume")
  /\ Commit(resumeAutoPlay(World))
  /\ UNCHANGED <<Rest, resizeTimer>>

handleVisibilityChange ==
  /\ Ready /\ HasRoom
  /\ env' = [env EXCEPT !.hidden = ~env.hidden]
  /\ IF env'.hidden
     THEN Ran("pause") /\ Commit(pauseAutoPlay(World))
     ELSE Ran("resume") /\ Commit(resumeAutoPlay(World))
  /\ UNCHANGED <<Rest, resizeTimer>>

(* ------------------------------- timers ------------------------------- *)
(* The resize listener: clearTimeout(resizeTimer); setTimeout(..., 150). *)
Resize ==
  /\ Ready
  /\ resizeTimer' = <<RESIZE_DEBOUNCE>>
  /\ Ran("none")
  /\ Commit(World)
  /\ UNCHANGED <<Rest, env>>

(* The debounced resize callback: updateCarousel(state.currentIndex, false). *)
(* A due callback runs whatever else is pending.                           *)
ResizeSync ==
  /\ Ready
  /\ resizeTimer = <<0>>
  /\ resizeTimer' = <<>>
  /\ Ran("sync")
  /\ Commit(updateCarousel(World, state.currentIndex, FALSE))
  /\ UNCHANGED <<Rest, env>>

(* The first due clear-callback of updateCarousel runs:                    *)
(* state.isTransitioning = false.                                          *)
ClearTransition ==
  /\ Ready
  /\ timeouts # <<>>
  /\ Head(timeouts).delay = 0
  /\ Ran("none")
  /\ Commit([World EXCEPT !.state.isTransitioning = FALSE,
                          !.timeouts = Tail(@)])
  /\ UNCHANGED <<Rest, resizeTimer, env>>

(* A due auto-play interval: navigateTo(state.currentIndex + 1). *)
AutoPlayTick(h) ==
  /\ Ready /\ HasRoom
  /\ h \in DOMAIN intervals
  /\ intervals[h] = 0
  /\ Called("auto", state.currentIndex + 1)
  /\ Commit(navigateTo([World EXCEPT !.intervals[h] = AUTO_PLAY_INTERVAL],
                       state.currentIndex + 1))
  /\ UNCHANGED <<Rest, resizeTimer, env>>

NothingDue ==
  /\ \A h \in DOMAIN intervals : intervals[h] > 0
  /\ \A i \in DOMAIN timeouts : timeouts[i].delay > 0
  /\ resizeTimer # <<0>>

AdvanceTime ==
  /\ Ready
  /\ NothingDue
  /\ Ran("none")
  /\ state' = [state EXCEPT
       !.lastKeyPressTime = Older(@, KEYBOARD_REPEAT_DELAY),
       !.touchStartTime = Older(@, SWIPE_MAX_DURATION)]
  /\ intervals' = [h \in DOMAIN intervals |-> Later(intervals[h])]
  /\ timeouts' = [i \in DOMAIN timeouts |->
                    [timeouts[i] EXCEPT !.delay = Later(@)]]
  /\ resizeTimer' = [i \in DOMAIN resizeTimer |-> Later(resizeTimer[i])]
  /\ UNCHANGED <<Rest, cards, indicators, liveRegion, env>>

(* A navigateTo(index) call with any integer argument. *)
Targets == (0 - MaxOvershoot)..(MaxCards + MaxOvershoot)

Navigate(index) ==
  /\ Ready /\ HasRoom
  /\ last' = [op |-> "call", from |-> state.currentIndex, arg |-> index,
              path |-> NavPath(World, index)]
  /\ Commit(navigateTo(World, index))
  /\ UNCHANGED <<Rest, resizeTimer, env>>

Next ==
  \/ InitCarousel
  \/ handlePrevClick
  \/ handleNextClick
  \/ \E k \in 0..(MaxCards - 1) : handleIndicatorClick(k)
  \/ \E key \in Keys : handleKeyDown(key)
  \/ \E n \in 1..2, p \in TouchStarts : handleTouchStart(n, p[1], p[2])
  \/ \E n \in 1..2, p \in TouchEnds : handleTouchMove(n, p[1], p[2])
  \/ \E p \in TouchEnds : handleTouchEnd(p[1], p[2])
  \/ MouseEnter
  \/ MouseLeave
  \/ FocusIn
  \/ FocusOut
  \/ handleVisibilityChange
  \/ Resize
  \/ ResizeSync
  \/ ClearTransition
  \/ \E h \in Handles : AutoPlayTick(h)
  \/ AdvanceTime

Spec == Init /\ [][Next]_vars

(* navigateTo under arbitrary integer arguments, with the timers and the   *)
(* pause / resume events around it.                                        *)
NextNav ==
  \/ InitCarousel
  \/ \E index \in Targets : Navigate(index)
  \/ MouseEnter
  \/ MouseLeave
  \/ Resize
  \/ ResizeSync
  \/ ClearTransition
  \/ \E h \in Handles : AutoPlayTick(h)
  \/ AdvanceTime

SpecNav == Init /\ [][NextNav]_vars

(* injectCarouselStyles called again, at any time after init. *)
InjectStyles ==
  /\ phase # "loading"
  /\ styles' = injectCarouselStyles(styles)
  /\ Ran("inject")
  /\ Commit(World)
  /\ UNCHANGED <<controls, dom, phase, logged, resizeTimer, env, compat,
                 lazy>>

NextStyles ==
  \/ InitCarousel
  \/ InjectStyles
  \/ handleNextClick
  \/ MouseEnter
  \/ MouseLeave
  \/ ClearTransition
  \/ \E h \in Handles : AutoPlayTick(h)
  \/ AdvanceTime

SpecStyles == Init /\ [][NextStyles]_vars

(* The carousel with timers that run once they are due: every due         *)
(* callback is eventually executed and the clock keeps advancing.          *)
NextFair ==
  \/ InitCarousel
  \/ handleNextClick
  \/ MouseEnter
  \/ MouseLeave
  \/ Resize
  \/ ResizeSync
  \/ ClearTransition
  \/ \E h \in Handles : AutoPlayTick(h)
  \/ AdvanceTime

FairTimers ==
  /\ WF_vars(ClearTransition)
  /\ WF_vars(ResizeSync)
  /\ WF_vars(\E h \in Handles : AutoPlayTick(h))
  /\ WF_vars(AdvanceTime)

SpecFair == Init /\ [][NextFair]_vars /\ FairTimers

(* -------------------------- browser classes --------------------------- *)
(* The carousel's variables, which the other scripts leave alone. *)
Carousel == <<state, cards, indicators, liveRegion, controls, styles,
              intervals, timeouts, resizeTimer, env, dom, phase, logged>>

minimumVersions == [chrome |-> 90, firefox |-> 88, safari |-> 14, edge |-> 90]

(* version >= (minimumVersions[browser] || 0) *)
isModernBrowser(browser, version) ==
  version >= (IF browser \in DOMAIN minimumVersions
              THEN minimumVersions[browser] ELSE 0)

(* The engine detect() reports with each browser. *)
EngineOf(browser) ==
  CASE browser \in {"chrome", "edge"} -> "blink"
    [] browser = "firefox" -> "gecko"
    [] browser = "safari" -> "webkit"
    [] browser = "edge-legacy" -> "edgehtml"
    [] OTHER -> "unknown"

(* What detect() can report: a recognized browser with the version parsed  *)
(* from the user agent (0 when none is found), or unknown with version 0.  *)
DetectOutcomes ==
  ({"chrome", "firefox", "safari", "edge", "edge-legacy"} \X (0..MaxVersion))
    \cup {<<"unknown", 0>>}

(* addBrowserClasses on a page whose detect() reports browser and version. *)
addBrowserClasses(browser, version) ==
  /\ ~compat.detected
  /\ LET isModern == isModernBrowser(browser, version)
     IN compat' = [detected |-> TRUE, browser |-> browser,
                   version |-> version, isModern |-> isModern,
                   classes |-> {"browser-" \o browser,
                                "engine-" \o EngineOf(browser)}
                               \cup (IF isModern THEN {}
                                     ELSE {"browser-legacy"})]
  /\ Ran("none")
  /\ UNCHANGED <<Carousel, lazy>>

NextCompat == \E o \in DetectOutcomes : addBrowserClasses(o[1], o[2])

SpecCompat == Init /\ [][NextCompat]_vars

(* ----------------------------- lazy loader ----------------------------- *)
Images == 1..MaxImages

(* loadImage(img), counted per image. *)
loadImage(lz, img) == [lz EXCEPT !.loads[img] = @ + 1]

unobserve(lz, img) == [lz EXCEPT !.observed = @ \ {img}]

(* The observer callback of setupObserver: entries.forEach(...). *)
RECURSIVE observerCallback(_, _)
observerCallback(lz, entries) ==
  IF entries = <<>> THEN lz
  ELSE LET entry == Head(entries)
           lz1 == IF entry.isIntersecting
                  THEN unobserve(loadImage(lz, entry.target), entry.target)
                  ELSE lz
       IN observerCallback(lz1, Tail(entries))

(* LazyLoader.init: without IntersectionObserver nothing is observed;      *)
(* otherwise observeImages observes every lazy image not yet complete.     *)
LazyLoaderInit(hasObserver, pending) ==
  /\ ~lazy.started
  /\ lazy' = [lazy EXCEPT !.started = TRUE,
                          !.observed = IF hasObserver THEN pending ELSE {}]
  /\ Ran("none")
  /\ UNCHANGED <<Carousel, compat>>

(* The entry lists a notification can carry: the browser queues an entry   *)
(* for an observed target at each rendering update in which its            *)
(* intersection changed and delivers the queue in a later task, so a list  *)
(* can hold several entries for one target.                                *)
EntryLists(targets) ==
  UNION {[1..n -> [target : targets, isIntersecting : BOOLEAN]] :
           n \in 1..MaxBatch}

ObserverNotifies(entries) ==
  /\ lazy.started
  /\ lazy' = [observerCallback(lazy, entries) EXCEPT !.entries = entries]
  /\ Ran("none")
  /\ UNCHANGED <<Carousel, compat>>

NextLazy ==
  \/ \E hasObserver \in BOOLEAN, pending \in SUBSET Images :
       LazyLoaderInit(hasObserver, pending)
  \/ \E entries \in EntryLists(lazy.observed) : ObserverNotifies(entries)

SpecLazy == Init /\ [][NextLazy]_vars

(* ------------------------------ properties ---------------------------- *)
N == state.totalCards

(* JavaScript's %: the remainder takes the sign of the dividend. *)
JsRem(a, n) == IF a >= 0 THEN a % n ELSE 0 - ((0 - a) % n)

(* ((i % N) + N) % N *)
ModN(i, n) == JsRem(JsRem(i, n) + n, n)

(* The step is a handler whose navigateTo call found a transition running. *)
BlockedCall == last'.path = "blocked" /\ state.isTransitioning

(* The step is a direct navigateTo(last'.arg) call with no transition      *)
(* running.                                                                *)
FreeCall == last'.op = "call" /\ ~state.isTransitioning

(* C1: a navigateTo call made while isTransitioning is true changes        *)
(* neither currentIndex, isTransitioning, the cards, the indicators nor    *)
(* the auto-play timer (an auto-play tick re-arms its own interval, which  *)
(* stays the same timer), whichever handler made the call.                 *)
C1_BlockedNavigateIsNoOp ==
  [][BlockedCall =>
       /\ state'.currentIndex = state.currentIndex
       /\ state'.isTransitioning = state.isTransitioning
       /\ cards' = cards
       /\ indicators' = indicators
       /\ liveRegion' = liveRegion
       /\ timeouts' = timeouts
       /\ state'.autoPlayTimer = state.autoPlayTimer
       /\ DOMAIN intervals' = DOMAIN intervals
       /\ last'.op # "auto" => intervals' = intervals]_vars

C1_Witness ==
  /\ last.path = "blocked"
  /\ last.op = "swipe"
  /\ state.isTransitioning
  /\ \E i \in DOMAIN timeouts : timeouts[i].animate /\ timeouts[i].delay > 0

(* C2 as stated: navigateTo(i) with no transition running leaves           *)
(* currentIndex = ((i % N) + N) % N for every integer i.                   *)
C2_ModularForEveryInteger ==
  [][FreeCall => state'.currentIndex = ModN(last'.arg, N)]_vars

(* C2 amended: the modular formula holds for i in [-1, N]; every i < -1    *)
(* leaves N-1 and every i > N leaves 0.                                    *)
C2_ModularOnlyNearTheRange ==
  [][FreeCall =>
       /\ last'.arg \in (0 - 1)..N =>
            state'.currentIndex = ModN(last'.arg, N)
       /\ last'.arg < 0 - 1 => state'.currentIndex = N - 1
       /\ last'.arg > N => state'.currentIndex = 0]_vars

C2_Witness ==
  /\ last.op = "call"
  /\ last.path = "moved"
  /\ last.arg = 0 - 1
  /\ state.currentIndex = N - 1

(* C3: with no transition running, navigateTo uses N-1 for a target below  *)
(* 0, 0 for a target at or above N and the target itself otherwise; when   *)
(* that index is the current one the call changes nothing.                 *)
C3_BoundaryWrap ==
  [][FreeCall =>
       LET target == IF last'.arg < 0 THEN N - 1
                     ELSE IF last'.arg >= N THEN 0
                     ELSE last'.arg
       IN IF target = state.currentIndex
          THEN UNCHANGED <<state, cards, indicators, liveRegion, intervals,
                           timeouts>>
          ELSE state'.currentIndex = target]_vars

C3_Witness ==
  /\ last.op = "call"
  /\ last.path = "moved"
  /\ last.arg >= N
  /\ state.currentIndex = 0

(* C4 as stated: with 3 cards, navigateTo(-1) from index 0 gives 2, and    *)
(* navigateTo(5) from index 2, the transition settled, gives 1.            *)
C4_ScenarioEndsAtOne ==
  [][(FreeCall /\ N = 3) =>
       /\ (state.currentIndex = 0 /\ last'.arg = 0 - 1) =>
            state'.currentIndex = 2
       /\ (state.currentIndex = 2 /\ last'.arg = 5) =>
            state'.currentIndex = 1]_vars

(* C4 amended: navigateTo(-1) from index 0 gives 2, and navigateTo(5) from *)
(* index 2 gives 0.                                                        *)
C4_ScenarioEndsAtZero ==
  [][(FreeCall /\ N = 3) =>
       /\ (state.currentIndex = 0 /\ last'.arg = 0 - 1) =>
            state'.currentIndex = 2
       /\ (state.currentIndex = 2 /\ last'.arg = 5) =>
            state'.currentIndex = 0]_vars

C4_Witness ==
  /\ N = 3
  /\ last = [op |-> "call", from |-> 2, arg |-> 5, path |-> "moved"]
  /\ state.currentIndex = 0

(* C5: once the carousel is initialized, exactly one card is active (has   *)
(* the active class, is not aria-hidden and has tabindex 0), and it is the *)
(* card at currentIndex.                                                   *)
C5_ExactlyOneActiveCard ==
  Ready =>
    /\ {i \in DOMAIN cards : cards[i].active} = {state.currentIndex}
    /\ {i \in DOMAIN cards :
          ~cards[i].ariaHidden /\ cards[i].tabindex = "0"}
         = {state.currentIndex}

C5_Witness ==
  /\ Ready
  /\ last.path = "moved"
  /\ state.currentIndex = 1
  /\ cards[1] = ActiveCard
  /\ cards[0] = HiddenCard

(* C6: once the carousel is initialized, currentIndex is in [0, N).        *)
C6_IndexInRange == Ready => state.currentIndex \in 0..(N - 1)

C6_Witness ==
  /\ Ready
  /\ last.op = "call"
  /\ last.path = "moved"
  /\ last.arg > N

(* C7: no navigateTo call changes currentIndex while the clear-callback    *)
(* of an earlier call that changed it is still pending.                    *)
C7_NavigationsSerialized ==
  [][state'.currentIndex # state.currentIndex =>
       \A i \in DOMAIN timeouts : ~timeouts[i].animate]_vars

(* C8 as stated: isTransitioning is true only while the clear-callback of  *)
(* a navigateTo call that changed currentIndex is pending.                 *)
C8_OnlyAfterNavigate ==
  (Ready /\ state.isTransitioning) =>
    \E i \in DOMAIN timeouts : timeouts[i].animate

(* C8 amended: isTransitioning is true only while a clear-callback of      *)
(* updateCarousel is pending: the transition-duration one of a navigateTo  *)
(* call that changed currentIndex, or the zero-delay one of the initial    *)
(* activation or of a resize re-sync.                                      *)
C8_OnlyWhileCallbackPending ==
  (Ready /\ state.isTransitioning) => timeouts # <<>>

C8_Witness ==
  /\ Ready
  /\ state.isTransitioning
  /\ last.op = "sync"
  /\ \A i \in DOMAIN timeouts : ~timeouts[i].animate

(* C9: while the pointer hovers the container, focus is inside it or the   *)
(* page is hidden, no auto-play timer is pending.                          *)
C9_PausedUntilComplement ==
  (Ready /\ (env.hover \/ env.focus \/ env.hidden)) =>
    (state.autoPlayTimer = 0 /\ DOMAIN intervals = {})

(* C10: pauseAutoPlay twice leaves what pauseAutoPlay leaves, with the     *)
(* timer cancelled; resumeAutoPlay twice leaves what resumeAutoPlay        *)
(* leaves, with exactly one live timer, the one in state.autoPlayTimer.    *)
C10_PauseResumeIdempotent ==
  Ready =>
    LET paused == pauseAutoPlay(World)
        resumed == resumeAutoPlay(World)
    IN /\ pauseAutoPlay(paused) = paused
       /\ paused.state.autoPlayTimer = 0
       /\ DOMAIN paused.intervals = {}
       /\ resumeAutoPlay(resumed) = resumed
       /\ DOMAIN resumed.intervals = {resumed.state.autoPlayTimer}

C10_Witness ==
  /\ Ready
  /\ last.op = "pause"
  /\ env.hover /\ env.focus
  /\ state.autoPlayTimer = 0
  /\ DOMAIN intervals = {}

(* C11: at most one auto-play interval is live and it is the one whose     *)
(* handle is in state.autoPlayTimer; a pause leaves no live interval, a    *)
(* resume leaves one, and the interval that fires is always the one held   *)
(* in state.autoPlayTimer, so a cancelled interval never fires.            *)
C11_OneLiveTimer ==
  [][/\ Ready' =>
          /\ Cardinality(DOMAIN intervals') <= 1
          /\ DOMAIN intervals' = IF state'.autoPlayTimer = 0 THEN {}
                                 ELSE {state'.autoPlayTimer}
     /\ last'.op = "pause" => DOMAIN intervals' = {}
     /\ last'.op = "resume" =>
          /\ DOMAIN intervals' = {state'.autoPlayTimer}
          /\ state.autoPlayTimer = 0 =>
               intervals'[state'.autoPlayTimer] = AUTO_PLAY_INTERVAL
     /\ last'.op = "auto" =>
          /\ state.autoPlayTimer # 0
          /\ intervals[state.autoPlayTimer] = 0]_vars

C11_Witness ==
  /\ Ready
  /\ last.op = "resume"
  /\ ~env.hover /\ ~env.focus /\ ~env.hidden
  /\ timeouts = <<>>
  /\ DOMAIN intervals = {state.autoPlayTimer}
  /\ intervals[state.autoPlayTimer] = AUTO_PLAY_INTERVAL

(* C12: a navigateTo call that changes currentIndex leaves exactly one     *)
(* auto-play interval, a fresh one with the whole AUTO_PLAY_INTERVAL still *)
(* to run; a call that does not change the index (blocked by a transition, *)
(* or aimed at the current card) leaves the timer as it was (an auto-play  *)
(* tick re-arms its own interval).                                         *)
C12_NavigateResetsTimer ==
  [][/\ (state'.currentIndex # state.currentIndex \/ last'.path = "moved") =>
          /\ state'.currentIndex # state.currentIndex
          /\ last'.path = "moved"
          /\ state'.autoPlayTimer # 0
          /\ DOMAIN intervals' = {state'.autoPlayTimer}
          /\ intervals'[state'.autoPlayTimer] = AUTO_PLAY_INTERVAL
     /\ last'.path \in {"blocked", "same"} =>
          /\ state'.autoPlayTimer = state.autoPlayTimer
          /\ DOMAIN intervals' = DOMAIN intervals
          /\ last'.op # "auto" => intervals' = intervals]_vars

C12_Witness ==
  /\ Ready
  /\ last.op = "button"
  /\ last.path = "moved"
  /\ ~env.hover /\ ~env.focus /\ ~env.hidden
  /\ resizeTimer = <<0>>
  /\ intervals[state.autoPlayTimer] = AUTO_PLAY_INTERVAL

(* C13: a firing of the auto-play interval with no transition running      *)
(* makes currentIndex (currentIndex + 1) mod N; with a transition running  *)
(* it changes neither the index, the flag, the DOM nor the timers.         *)
C13_AutoTickAdvances ==
  [][last'.op = "auto" =>
       IF state.isTransitioning
       THEN /\ UNCHANGED <<cards, indicators, liveRegion, timeouts>>
            /\ state' = state
            /\ DOMAIN intervals' = DOMAIN intervals
       ELSE state'.currentIndex = (state.currentIndex + 1) % N]_vars

C13_Witness ==
  /\ Ready
  /\ N = MaxCards
  /\ last.op = "auto"
  /\ last.path = "moved"
  /\ state.currentIndex = 0

(* C14: with no transition running, the previous button and (outside the   *)
(* repeat delay) ArrowLeft lead to currentIndex - 1, the next button and   *)
(* ArrowRight to currentIndex + 1, both wrapping around, Home to 0, End    *)
(* to N-1 and a click on indicator k to k; any other key leaves the state, *)
(* lastKeyPressTime included, as it is.                                    *)
C14_InputTargets ==
  (Ready /\ ~state.isTransitioning) =>
    LET cur == state.currentIndex
    IN /\ PrevClick.state.currentIndex = ModN(cur - 1, N)
       /\ NextClick.state.currentIndex = ModN(cur + 1, N)
       /\ \A k \in 0..(N - 1) : IndicatorClick(k).state.currentIndex = k
       /\ ~(state.lastKeyPressTime < KEYBOARD_REPEAT_DELAY) =>
            /\ KeyDown("ArrowLeft").state.currentIndex = ModN(cur - 1, N)
            /\ KeyDown("ArrowRight").state.currentIndex = ModN(cur + 1, N)
            /\ KeyDown("Home").state.currentIndex = 0
            /\ KeyDown("End").state.currentIndex = N - 1
       /\ \A key \in Keys \ {"ArrowLeft", "ArrowRight", "Home", "End"} :
            KeyDown(key) = World

C14_Witness ==
  /\ Ready
  /\ N = MaxCards
  /\ last.op = "key"
  /\ last.path = "moved"
  /\ state.lastKeyPressTime = DateNow
  /\ state.currentIndex = N - 1
  /\ cards[N - 1] = ActiveCard

(* C15: a key event inside the repeat delay after the last handled         *)
(* navigation key changes nothing, whatever the key, and is never a        *)
(* keyboard navigation.                                                    *)
C15_KeyboardDebounce ==
  [][(Ready /\ state.lastKeyPressTime < KEYBOARD_REPEAT_DELAY) =>
       /\ \A key \in Keys : KeyDown(key) = World
       /\ last'.op # "key"
       /\ last'.op = "debounced" =>
            UNCHANGED <<state, cards, indicators, liveRegion, intervals,
                        timeouts>>]_vars

C15_Witness ==
  /\ Ready
  /\ last.op = "debounced"
  /\ state.lastKeyPressTime = DateNow
  /\ ~state.isTransitioning

(* C16: at the touch-end of a recorded single-touch gesture, with no       *)
(* transition running, the index changes exactly when the swipe is within  *)
(* the angle threshold of the horizontal axis, longer than SWIPE_THRESHOLD *)
(* and shorter than 500 ms; it then goes to currentIndex + 1 for a         *)
(* negative and to currentIndex - 1 for a positive horizontal displacement.*)
C16_SwipeAcceptance ==
  (Ready /\ env.gesture /\ ~state.isTransitioning) =>
    \A p \in TouchEnds :
      LET deltaX == p[1] - state.touchStartX
          deltaY == p[2] - state.touchStartY
          after == TouchEnd(p[1], p[2]).state.currentIndex
      IN IF SwipeAccepted(deltaX, deltaY, state.touchStartTime)
         THEN after = ModN(state.currentIndex + (IF deltaX < 0 THEN 1 ELSE 0 - 1), N)
         ELSE after = state.currentIndex

(* C17: after every touch-end of a gesture, touchStartX, touchStartY and   *)
(* touchStartTime are all cleared.                                         *)
C17_TouchDataCleared ==
  [][(Ready /\ env.gesture /\ last'.op \in {"swipe", "touchend"}) =>
       /\ state'.touchStartX = 0
       /\ state'.touchStartY = 0
       /\ state'.touchStartTime = ZeroStamp(SWIPE_MAX_DURATION)]_vars

(* C18: the resize callback leaves currentIndex, isTransitioning,          *)
(* isAutoPlaying and the auto-play timer as they were, and a navigateTo    *)
(* call made right after it takes the return it would have taken before.   *)
C18_ResizeSyncIsPureRender ==
  [][last'.op = "sync" =>
       /\ state'.currentIndex = state.currentIndex
       /\ state'.isTransitioning = state.isTransitioning
       /\ state'.isAutoPlaying = state.isAutoPlaying
       /\ state'.autoPlayTimer = state.autoPlayTimer
       /\ intervals' = intervals
       /\ \A index \in Targets :
            NavPath([state |-> state'], index) = NavPath(World, index)]_vars

(* C19: when the container or the grid is absent, or fewer than 2 cards    *)
(* are found, init touches no DOM attribute, adds no element, starts no    *)
(* timer and logs no error, and no step ever changes anything afterwards.  *)
C19_NothingWithoutCarousel ==
  [][(~dom.container \/ ~dom.grid \/ dom.nCards < 2) =>
       /\ phase' # "ready"
       /\ \A i \in DOMAIN cards' : cards'[i] = StaticCard
       /\ DOMAIN indicators' = {}
       /\ liveRegion' = liveRegion
       /\ controls' = "none"
       /\ styles' = 0
       /\ DOMAIN intervals' = {}
       /\ timeouts' = <<>>
       /\ resizeTimer' = <<>>
       /\ logged' = 0
       /\ phase = "static" => UNCHANGED vars]_vars

C19_Witness ==
  /\ phase = "static"
  /\ dom.container /\ dom.grid /\ dom.wrapper
  /\ dom.nCards = 1
  /\ state.totalCards = 1
  /\ cards[0] = StaticCard
  /\ controls = "none"

(* C20: when init throws on the missing wrapper, the error is logged once  *)
(* and the static layout stays: no card is marked, no control, indicator,  *)
(* live region or style element is attached, no timer runs, and no step    *)
(* ever changes anything afterwards.                                       *)
C20_FailedInitLeavesStatic ==
  [][(dom.container /\ dom.grid /\ dom.nCards > 1 /\ ~dom.wrapper) =>
       /\ phase' = "static"
       /\ logged' = 1
       /\ \A i \in DOMAIN cards' : cards'[i] = StaticCard
       /\ DOMAIN indicators' = {}
       /\ liveRegion' = liveRegion
       /\ controls' # "attached"
       /\ styles' = 0
       /\ DOMAIN intervals' = {}
       /\ timeouts' = <<>>
       /\ resizeTimer' = <<>>
       /\ phase = "static" => UNCHANGED vars]_vars

C20_Witness ==
  /\ phase = "static"
  /\ logged = 1
  /\ ~dom.wrapper
  /\ dom.nCards = MaxCards
  /\ controls = "detached"
  /\ \A i \in DOMAIN cards : cards[i] = StaticCard

(* C21: the step that initializes the carousel leaves currentIndex 0,      *)
(* card 0 the only active card, N indicators with only indicator 0         *)
(* selected, the buttons attached, the live region announcing card 1 of N, *)
(* exactly one auto-play interval with the whole interval to run, and      *)
(* isTransitioning set with a single zero-delay clear-callback pending.    *)
C21_AfterInit ==
  [][(phase = "loading" /\ phase' = "ready") =>
       /\ N' = dom.nCards /\ N' >= 2
       /\ state'.currentIndex = 0
       /\ cards' = [i \in 0..(N' - 1) |->
                      IF i = 0 THEN ActiveCard ELSE HiddenCard]
       /\ DOMAIN indicators' = 0..(N' - 1)
       /\ {i \in DOMAIN indicators' : indicators'[i].selected} = {0}
       /\ {i \in DOMAIN indicators' : indicators'[i].active} = {0}
       /\ controls' = "attached"
       /\ liveRegion' = [shown |-> 1, total |-> N', from |-> 0]
       /\ state'.isAutoPlaying
       /\ Cardinality(DOMAIN intervals') = 1
       /\ DOMAIN intervals' = {state'.autoPlayTimer}
       /\ intervals'[state'.autoPlayTimer] = AUTO_PLAY_INTERVAL
       /\ state'.isTransitioning
       /\ timeouts' = <<[delay |-> 0, animate |-> FALSE]>>]_vars

C21_Witness ==
  /\ Ready
  /\ N = MaxCards
  /\ last.op = "none"
  /\ state.isTransitioning
  /\ timeouts = <<[delay |-> 0, animate |-> FALSE]>>
  /\ resizeTimer = <<>>
  /\ DOMAIN indicators = 0..(N - 1)
  /\ intervals[state.autoPlayTimer] = AUTO_PLAY_INTERVAL

(* C22: once the carousel is initialized, the selected indicator is        *)
(* exactly the one at currentIndex, every other card is aria-hidden with   *)
(* tabindex -1, and the live region announces currentIndex + 1 of N.       *)
C22_AuxiliaryUiConsistent ==
  Ready =>
    /\ {i \in DOMAIN indicators : indicators[i].selected}
         = {state.currentIndex}
    /\ \A i \in DOMAIN cards \ {state.currentIndex} :
         cards[i].ariaHidden /\ cards[i].tabindex = "-1"
    /\ liveRegion.shown = state.currentIndex + 1
    /\ liveRegion.total = N

C22_Witness ==
  /\ Ready
  /\ N = MaxCards
  /\ last.op = "indicator"
  /\ last.path = "moved"
  /\ state.currentIndex = N - 1
  /\ indicators[N - 1].selected
  /\ liveRegion.shown = N

(* C23: however often injectCarouselStyles is called, one style element    *)
(* with the identifier is in the document, and a call that finds it there  *)
(* changes nothing.                                                        *)
C23_StyleInjectionIdempotent ==
  [][/\ styles' <= 1
     /\ last'.op = "inject" =>
          /\ styles' = 1
          /\ styles = 1 =>
               UNCHANGED <<state, cards, indicators, liveRegion, controls,
                           styles, intervals, timeouts, resizeTimer, env,
                           dom, phase, logged>>]_vars

C23_Witness ==
  /\ Ready
  /\ last.op = "inject"
  /\ styles = 1
  /\ state.currentIndex = 1

(* C24: whenever isTransitioning is true it is eventually false again,     *)
(* given that scheduled timeout callbacks eventually run.                  *)
C24_TransitionSettles ==
  (Ready /\ state.isTransitioning) ~> ~state.isTransitioning

C24_Witness ==
  /\ Ready
  /\ ~state.isTransitioning
  /\ timeouts = <<>>
  /\ last.op = "none"
  /\ state.currentIndex = 1
  /\ resizeTimer = <<>>

C26_FlagTracksTimer ==
  Ready => (state.isAutoPlaying <=> state.autoPlayTimer # 0)

(* C27: isModernBrowser is true only for chrome >= 90, firefox >= 88,      *)
(* safari >= 14 and edge >= 90, false for an unknown browser and for       *)
(* legacy Edge, which therefore get the browser-legacy class.              *)
C27_ModernOnlyWhenSupported ==
  compat.detected =>
    LET supported ==
          \/ compat.browser = "chrome" /\ compat.version >= 90
          \/ compat.browser = "firefox" /\ compat.version >= 88
          \/ compat.browser = "safari" /\ compat.version >= 14
          \/ compat.browser = "edge" /\ compat.version >= 90
    IN /\ compat.isModern <=> supported
       /\ "browser-legacy" \in compat.classes <=> ~supported

(* C28: no image is loaded more than once; an image whose entry reports it *)
(* intersecting is loaded and unobserved, an image loaded by an earlier    *)
(* callback is never loaded again, and an image reported only as not       *)
(* intersecting is neither loaded nor unobserved.                          *)
C28_LoadsAtMostOnce ==
  [][lazy' # lazy =>
       LET entries == lazy'.entries
           Hit(img) == \E i \in DOMAIN entries :
                         entries[i].target = img /\ entries[i].isIntersecting
       IN \A img \in Images :
            /\ lazy'.loads[img] <= 1
            /\ (lazy.started /\ Hit(img)) =>
                 /\ lazy'.loads[img] > lazy.loads[img]
                 /\ img \notin lazy'.observed
            /\ lazy.loads[img] > 0 => lazy'.loads[img] = lazy.loads[img]
            /\ (lazy.started /\ ~Hit(img)) =>
                 /\ lazy'.loads[img] = lazy.loads[img]
                 /\ img \in lazy'.observed <=> img \in lazy.observed]_vars

====
